---- MODULE Spec2Model ----
(***************************************************************************)
(* Verification model of the ITKBoneEnhancement multi-scale pipeline:      *)
(*   - MultiScaleHessianEnhancementImageFilter (GenerateData,              *)
(*     generateResponseAtScale, GenerateSigmaArray, ConvertType)           *)
(*   - EigenToMeasureImageFilter::GenerateData                             *)
(*   - DescoteauxEigenToScalarParameterEstimationImageFilter               *)
(*                                                                         *)
(* Numbers.  SigmaType/RealType are IEEE doubles.  They are modelled as    *)
(* extended rationals: a record [k, n, d] with k one of "fin" (the value   *)
(* n/d, d > 0, in lowest terms), "nan", "inf", "ninf".  A sigma value is   *)
(* [dom, x]: dom = "lin" is the real number x * SigmaUnit, dom = "exp" is  *)
(* the real number exp(x * SigmaUnit), where SigmaUnit = 2.5e-11, so that  *)
(* the literal 1e-10 of GenerateSigmaArray is MinStepSize = 4 units in     *)
(* both domains and std::log / std::exp are exact on the "exp" values.     *)
(***************************************************************************)
EXTENDS Integers, Sequences, FiniteSets, TLC

(***************************************************************************)
(* Bounds of the model                                                     *)
(***************************************************************************)
MaxSigmaSteps == 3
MaxSigmaValue == 6
\* voxels of the response images of the multi-scale filter, schedule length
NumResponseVoxels == 1
MaxScales == 3
\* voxels of an eigenvalue image, work units of a parallel region
NumVoxels == 2
NumThreads == 2

(***************************************************************************)
(* State                                                                   *)
(***************************************************************************)
\* MultiScaleHessianEnhancementImageFilter
VARIABLES
  m_SigmaArray,                \* the scale schedule
  m_EigenToScalarImageFilter,  \* "nullptr", or the eigenvalue order the functor declares
  response,                    \* the single-scale pipeline: sigma -> response image
  msPc,                        \* position in GenerateData
  msError,                     \* the exception GenerateData threw, "none" otherwise
  hessianFilter,               \* [normalize, sigma, input] of m_HessianFilter
  eigenAnalysisFilter,         \* [order, input] of m_EigenAnalysisFilter
  eigenToScalarOutput,         \* bulk data of m_EigenToScalarImageFilter->GetOutput()
  maxAbsOutput,                \* bulk data of m_MaximumAbsoluteValueFilter->GetOutput()
  outputImageTypePointer,      \* which data object the pointer refers to
  scaleLevel,                  \* loop variable of GenerateData
  graftedOutput,               \* bulk data grafted onto this filter's output
  sigmaRuns,                   \* history: sigmas handed to m_HessianFilter->SetSigma
  orderRuns,                   \* history: order of m_EigenAnalysisFilter at each pipeline Update
  maxAbsRuns                   \* history: number of m_MaximumAbsoluteValueFilter->Update()

msVars == <<m_SigmaArray, m_EigenToScalarImageFilter, response, msPc, msError,
            hessianFilter, eigenAnalysisFilter, eigenToScalarOutput, maxAbsOutput,
            outputImageTypePointer, scaleLevel, graftedOutput, sigmaRuns, orderRuns,
            maxAbsRuns>>

\* EigenToMeasureImageFilter
VARIABLES
  emInput,         \* the eigenvalue image
  emMask,          \* NoMask (nullptr), or the voxels IsInsideInObjectSpace accepts
  emProcessPixel,  \* the virtual ProcessPixel of the subclass
  emOutput,        \* output buffer: the voxels written so far -> value
  emPc,            \* position in GenerateData
  emRegion,        \* ParallelizeImageRegion: voxel -> work unit that owns it
  emIt,            \* work unit -> number of ++inputIt, ++outputIt it has done
  emCalls,         \* history: ProcessPixel calls per voxel
  emWrites,        \* history: outputIt.Set calls per voxel
  emWriter         \* history: the work unit that wrote the voxel last, 0 if none did

emVars == <<emInput, emMask, emProcessPixel, emOutput, emPc, emRegion, emIt, emCalls,
            emWrites, emWriter>>

\* DescoteauxEigenToScalarParameterEstimationImageFilter
VARIABLES
  estInput,               \* NoData, or the eigenvalue image
  estMask,                \* NoData, or the mask image: voxels of its region -> label
  m_BackgroundValue,
  m_FrobeniusNormWeight,
  alphaOutput,            \* decorated outputs
  betaOutput,
  cOutput,
  m_MaxFrobeniusNorm,     \* one slot per thread
  estPc,                  \* position in Update
  estRegion,              \* voxel -> thread that scans it
  estScanned,             \* threads whose ThreadedGenerateData has returned
  estFresh,               \* history: the outputs come from an Update with the present settings
  estLast,                \* history: [updated, c, maximum] of the last Update
  estPrevious             \* history: the same of the Update before it, once the last has returned

estVars == <<estInput, estMask, m_BackgroundValue, m_FrobeniusNormWeight, alphaOutput,
             betaOutput, cOutput, m_MaxFrobeniusNorm, estPc, estRegion, estScanned,
             estFresh, estLast, estPrevious>>

\* a call of GenerateSigmaArray and the call with the bounds exchanged
VARIABLES
  sigArgs,      \* [min, max, steps, method] of the call
  sigResult,    \* Pending, or what GenerateSigmaArray(min, max, ...) returned
  sigSwapped    \* Pending, or what GenerateSigmaArray(max, min, ...) returned

sigVars == <<sigArgs, sigResult, sigSwapped>>

vars == <<msVars, emVars, estVars, sigVars>>

(***************************************************************************)
(* Extended rational arithmetic (IEEE-754 special values, exact otherwise) *)
(***************************************************************************)
RECURSIVE Gcd(_, _)
Gcd(a, b) == IF b = 0 THEN a ELSE Gcd(b, a % b)

Abs(i) == IF i < 0 THEN -i ELSE i

NaN == [k |-> "nan", n |-> 0, d |-> 1]
PInf == [k |-> "inf", n |-> 0, d |-> 1]
NInf == [k |-> "ninf", n |-> 0, d |-> 1]

Fin(n, d) ==
  LET g == Gcd(Abs(n), d)
  IN  IF n = 0 THEN [k |-> "fin", n |-> 0, d |-> 1]
      ELSE [k |-> "fin", n |-> n \div g, d |-> d \div g]

Neg(a) ==
  CASE a.k = "fin" -> Fin(-a.n, a.d)
    [] a.k = "inf" -> NInf
    [] a.k = "ninf" -> PInf
    [] OTHER -> NaN

Add(a, b) ==
  CASE a.k = "nan" \/ b.k = "nan" -> NaN
    [] a.k = "fin" /\ b.k = "fin" -> Fin(a.n * b.d + b.n * a.d, a.d * b.d)
    [] a.k = "fin" -> b
    [] b.k = "fin" -> a
    [] a.k = b.k -> a
    [] OTHER -> NaN

Sub(a, b) == Add(a, Neg(b))

\* a * i for an integer i >= 1 (the scale level)
MulInt(a, i) ==
  CASE a.k = "fin" -> Fin(a.n * i, a.d)
    [] OTHER -> a

\* a / i for an integer i >= 1 (NumberOfSigmaSteps - 1)
DivInt(a, i) ==
  CASE a.k = "fin" -> Fin(a.n, a.d * i)
    [] OTHER -> a

\* operator< of double: false as soon as one side is NaN
Less(a, b) ==
  CASE a.k = "nan" \/ b.k = "nan" -> FALSE
    [] a.k = "fin" /\ b.k = "fin" -> a.n * b.d < b.n * a.d
    [] a.k = "ninf" -> b.k # "ninf"
    [] b.k = "inf" -> a.k # "inf"
    [] OTHER -> FALSE

\* std::max(a, b): (a < b) ? b : a
StdMax(a, b) == IF Less(a, b) THEN b ELSE a

(***************************************************************************)
(* Sigma values                                                            *)
(***************************************************************************)
Lin(x) == [dom |-> "lin", x |-> x]
Exp(x) ==
  CASE x.k = "fin" -> [dom |-> "exp", x |-> x]
    [] x.k = "ninf" -> Lin(Fin(0, 1))
    [] OTHER -> Lin(x)

\* std::log: exact on "exp" values, -inf at 0, NaN below 0
Log(s) ==
  CASE s.dom = "exp" -> s.x
    [] s.x.k = "fin" /\ s.x.n = 0 -> NInf
    [] s.x.k = "fin" /\ s.x.n < 0 -> NaN
    [] s.x.k = "inf" -> PInf
    [] OTHER -> NaN

\* every "exp" value is positive and finite
IsPositive(s) == s.dom = "exp" \/ s.x.k = "inf" \/ (s.x.k = "fin" /\ s.x.n > 0)
IsNaN(s) == s.dom = "lin" /\ s.x.k = "nan"

\* operator< on two sigma values of one call.  A "lin" value is compared
\* with an "exp" value only when it is non-positive or infinite (SigmaInputs).
SigmaLess(a, b) ==
  CASE IsNaN(a) \/ IsNaN(b) -> FALSE
    [] a.dom = b.dom -> Less(a.x, b.x)
    [] a.dom = "lin" -> ~IsPositive(a)
    [] OTHER -> b.x.k = "inf"

SigmaLeq(a, b) == ~IsNaN(a) /\ ~IsNaN(b) /\ (a = b \/ SigmaLess(a, b))

\* 1e-10, in SigmaUnit
MinStepSize == 4

(***************************************************************************)
(* MultiScaleHessianEnhancementImageFilter::GenerateSigmaArray             *)
(***************************************************************************)
SigmaStepMethods == {"EquispacedSigmaSteps", "LogarithmicSigmaSteps"}

\* if (SigmaMinimum > SigmaMaximum) std::swap(SigmaMinimum, SigmaMaximum)
SwapIfGreaterMutant(SigmaMinimum, SigmaMaximum) == <<SigmaMinimum, SigmaMaximum>>

SwapIfGreater(SigmaMinimum, SigmaMaximum) ==
  IF SigmaLess(SigmaMaximum, SigmaMinimum)
  THEN <<SigmaMaximum, SigmaMinimum>>
  ELSE <<SigmaMinimum, SigmaMaximum>>

\* if (SigmaMinimum == SigmaMaximum) NumberOfSigmaSteps = 1
ForceOneStepMutant(SigmaMinimum, SigmaMaximum, NumberOfSigmaSteps) == NumberOfSigmaSteps

ForceOneStep(SigmaMinimum, SigmaMaximum, NumberOfSigmaSteps) ==
  IF ~IsNaN(SigmaMinimum) /\ SigmaMinimum = SigmaMaximum THEN 1 ELSE NumberOfSigmaSteps

\* case Self::EquispacedSigmaSteps
EquispacedSigma(SigmaMinimum, SigmaMaximum, NumberOfSigmaSteps, level) ==
  LET stepSize == StdMax(Fin(MinStepSize, 1),
                         DivInt(Sub(SigmaMaximum.x, SigmaMinimum.x), NumberOfSigmaSteps - 1))
  IN  Lin(Add(SigmaMinimum.x, MulInt(stepSize, level)))

\* case Self::LogarithmicSigmaSteps
LogarithmicSigma(SigmaMinimum, SigmaMaximum, NumberOfSigmaSteps, level) ==
  LET stepSize == StdMax(Fin(MinStepSize, 1),
                         DivInt(Sub(Log(SigmaMaximum), Log(SigmaMinimum)), NumberOfSigmaSteps - 1))
  IN  Exp(Add(Log(SigmaMinimum), MulInt(stepSize, level)))

\* The result is [err, arr]: err = "none" and the array, or the exception thrown.
GenerateSigmaArray(SigmaMinimum, SigmaMaximum, NumberOfSigmaSteps, SigmaStepMethod) ==
  IF NumberOfSigmaSteps < 1
  THEN [err |-> "Number of sigma values requested is less than 1", arr |-> <<>>]
  ELSE
    LET b == SwapIfGreater(SigmaMinimum, SigmaMaximum)
        lo == b[1]
        hi == b[2]
        steps == ForceOneStep(lo, hi, NumberOfSigmaSteps)
        thisSigma(level) ==
          IF SigmaStepMethod = "EquispacedSigmaSteps"
          THEN EquispacedSigma(lo, hi, steps, level)
          ELSE LogarithmicSigma(lo, hi, steps, level)
    IN  IF steps > 1 /\ SigmaStepMethod \notin SigmaStepMethods
        THEN [err |-> "Requested sigma step method does not exist", arr |-> <<>>]
        ELSE [err |-> "none",
              arr |-> [i \in 1..steps |-> IF i = 1 THEN lo ELSE thisSigma(i - 1)]]

GenerateEquispacedSigmaArray(SigmaMinimum, SigmaMaximum, NumberOfSigmaSteps) ==
  GenerateSigmaArray(SigmaMinimum, SigmaMaximum, NumberOfSigmaSteps, "EquispacedSigmaSteps")

GenerateLogarithmicSigmaArray(SigmaMinimum, SigmaMaximum, NumberOfSigmaSteps) ==
  GenerateSigmaArray(SigmaMinimum, SigmaMaximum, NumberOfSigmaSteps, "LogarithmicSigmaSteps")

\* Arguments a caller can pass: finite doubles, positive or not.
LinInputs == {Lin(Fin(n, 1)) : n \in -1..MaxSigmaValue}
ExpInputs == {Exp(Fin(n, 1)) : n \in 0..MaxSigmaValue}
NonPositiveInputs == {Lin(Fin(n, 1)) : n \in -1..0}
SigmaInputs(method) ==
  IF method = "LogarithmicSigmaSteps" THEN NonPositiveInputs \cup ExpInputs ELSE LinInputs
AllStepMethods == SigmaStepMethods \cup {"UnknownSigmaSteps"}

(***************************************************************************)
(* Images                                                                  *)
(***************************************************************************)
Voxels == 1..NumVoxels
ResponseVoxels == 1..NumResponseVoxels
\* OutputImagePixelType: both signs, equal and different magnitudes
Values == {-1, 0, 1}
Images == [ResponseVoxels -> Values]
\* a data object without bulk data (never generated, or released)
NoData == <<>>

(***************************************************************************)
(* MultiScaleHessianEnhancementImageFilter: state                          *)
(***************************************************************************)

\* the sigma values a schedule is made of: a fine and a coarse scale
ScheduleSigmas == {1, 2}
ExternalEigenValueOrders == {"OrderByValue", "OrderByMagnitude", "DoNotOrder", "BadOrder"}

RECURSIVE SeqsUpTo(_, _)
SeqsUpTo(S, n) ==
  IF n = 0 THEN {<<>>}
  ELSE LET shorter == SeqsUpTo(S, n - 1)
       IN  shorter \cup {Append(q, x) : q \in {r \in shorter : Len(r) = n - 1}, x \in S}

\* MultiScaleHessianEnhancementImageFilter::ConvertType
ConvertTypeMutant(order) == "OrderByValue"

ConvertType(order) ==
  CASE order = "OrderByValue" -> "OrderByValue"
    [] order = "OrderByMagnitude" -> "OrderByMagnitude"
    [] order = "DoNotOrder" -> "DoNotOrder"
    [] OTHER -> "exception"

\* Functor of MaximumAbsoluteValueImageFilter
MaximumAbsoluteValue(a, b) == IF Abs(a) >= Abs(b) THEN a ELSE b

\* The two precondition tests at the head of GenerateData
PreconditionErrorMutant(filter, sigmaArray) ==
  IF filter = "nullptr" THEN "EigenToScalarImageFilter is not present" ELSE "none"

PreconditionError(filter, sigmaArray) ==
  IF filter = "nullptr" THEN "EigenToScalarImageFilter is not present"
  ELSE IF Len(sigmaArray) < 1 THEN "SigmaArray must have at least one sigma value"
  ELSE "none"

\* The bulk data a pointer to a data object gives access to
Deref(pointer, eOut, mOut) ==
  CASE pointer = "EigenToScalarOutput" -> eOut
    [] pointer = "MaximumAbsoluteValueOutput" -> mOut
    [] OTHER -> NoData

\* this->GraftOutput(outputImageTypePointer)
GraftSourceMutant(pointer) == "MaximumAbsoluteValueOutput"

GraftSource(pointer) == pointer

MsInit ==
  /\ m_SigmaArray = <<>>
  /\ m_EigenToScalarImageFilter = "nullptr"
  /\ response \in [ScheduleSigmas -> Images]
  /\ msPc = "idle"
  /\ msError = "none"
  /\ hessianFilter = [normalize |-> FALSE, sigma |-> 0, input |-> "none"]
  /\ eigenAnalysisFilter = [order |-> "unset", input |-> "none"]
  /\ eigenToScalarOutput = NoData
  /\ maxAbsOutput = NoData
  /\ outputImageTypePointer = "null"
  /\ scaleLevel = 0
  /\ graftedOutput = NoData
  /\ sigmaRuns = <<>>
  /\ orderRuns = <<>>
  /\ maxAbsRuns = 0

SetSigmaArray(array) ==
  /\ msPc = "idle"
  /\ m_SigmaArray' = array
  /\ UNCHANGED <<m_EigenToScalarImageFilter, response, msPc, msError, hessianFilter,
                 eigenAnalysisFilter, eigenToScalarOutput, maxAbsOutput,
                 outputImageTypePointer, scaleLevel, graftedOutput, sigmaRuns, orderRuns,
                 maxAbsRuns>>
  /\ UNCHANGED <<emVars, estVars, sigVars>>

SetEigenToScalarImageFilter(order) ==
  /\ msPc = "idle"
  /\ m_EigenToScalarImageFilter' = order
  /\ UNCHANGED <<m_SigmaArray, response, msPc, msError, hessianFilter,
                 eigenAnalysisFilter, eigenToScalarOutput, maxAbsOutput,
                 outputImageTypePointer, scaleLevel, graftedOutput, sigmaRuns, orderRuns,
                 maxAbsRuns>>
  /\ UNCHANGED <<emVars, estVars, sigVars>>

\* GenerateData, lines 73-126: tests, filter parameters, connections
GenerateDataBegin ==
  /\ msPc = "idle"
  /\ LET err == PreconditionError(m_EigenToScalarImageFilter, m_SigmaArray)
         order == ConvertType(m_EigenToScalarImageFilter)
     IN  IF err # "none"
         THEN /\ msPc' = "failed"
              /\ msError' = err
              /\ UNCHANGED <<hessianFilter, eigenAnalysisFilter>>
         ELSE IF order = "exception"
         THEN /\ msPc' = "failed"
              /\ msError' = "Trying to convert bad order"
              /\ hessianFilter' = [hessianFilter EXCEPT !.normalize = TRUE]
              /\ UNCHANGED eigenAnalysisFilter
         ELSE /\ msPc' = "first"
              /\ msError' = "none"
              /\ hessianFilter' = [hessianFilter EXCEPT !.normalize = TRUE, !.input = "input"]
              /\ eigenAnalysisFilter' = [order |-> order, input |-> "HessianOutput"]
  /\ UNCHANGED <<m_SigmaArray, m_EigenToScalarImageFilter, response, eigenToScalarOutput,
                 maxAbsOutput, outputImageTypePointer, scaleLevel, graftedOutput,
                 sigmaRuns, orderRuns, maxAbsRuns>>
  /\ UNCHANGED <<emVars, estVars, sigVars>>

\* generateResponseAtScale(level): the sigma it sets
ThisSigma(sigmaArray, level) == sigmaArray[level + 1]

\* GenerateData, line 132: outputImageTypePointer = generateResponseAtScale(0)
ProcessFirstScale ==
  /\ msPc = "first"
  /\ LET thisSigma == ThisSigma(m_SigmaArray, 0)
     IN  /\ hessianFilter' = [hessianFilter EXCEPT !.sigma = thisSigma]
         /\ eigenToScalarOutput' = response[thisSigma]
         /\ sigmaRuns' = Append(sigmaRuns, thisSigma)
         /\ orderRuns' = Append(orderRuns, eigenAnalysisFilter.order)
  /\ outputImageTypePointer' = "EigenToScalarOutput"
  /\ scaleLevel' = 1
  /\ msPc' = "loop"
  /\ UNCHANGED <<m_SigmaArray, m_EigenToScalarImageFilter, response, msError,
                 eigenAnalysisFilter, maxAbsOutput, graftedOutput, maxAbsRuns>>
  /\ UNCHANGED <<emVars, estVars, sigVars>>

\* GenerateData, lines 135-147: one iteration of the loop over the remaining scales.
\* generateResponseAtScale regenerates the bulk data of the one output object of
\* m_EigenToScalarImageFilter; outputImageTypePointer still refers to the object it
\* was assigned.  m_MaximumAbsoluteValueFilter->Update() prepares its output object
\* for new data before it reads its inputs, so an input that is that same object is
\* read as freshly allocated, uninitialized memory.  After the update the inputs
\* flagged ReleaseData (the output of m_EigenToScalarImageFilter) are released.
ProcessNextScale ==
  /\ msPc = "loop"
  /\ scaleLevel < Len(m_SigmaArray)
  /\ LET thisSigma == ThisSigma(m_SigmaArray, scaleLevel)
         tempResponse == response[thisSigma]
     IN  /\ hessianFilter' = [hessianFilter EXCEPT !.sigma = thisSigma]
         /\ sigmaRuns' = Append(sigmaRuns, thisSigma)
         /\ orderRuns' = Append(orderRuns, eigenAnalysisFilter.order)
         /\ \E uninitialized \in Images :
              LET input1 == Deref(outputImageTypePointer, tempResponse, uninitialized)
                  input2 == tempResponse
              IN  maxAbsOutput' =
                    [v \in ResponseVoxels |-> MaximumAbsoluteValue(input1[v], input2[v])]
  /\ eigenToScalarOutput' = NoData
  /\ maxAbsRuns' = maxAbsRuns + 1
  /\ outputImageTypePointer' = "MaximumAbsoluteValueOutput"
  /\ scaleLevel' = scaleLevel + 1
  /\ UNCHANGED <<m_SigmaArray, m_EigenToScalarImageFilter, response, msPc, msError,
                 eigenAnalysisFilter, graftedOutput>>
  /\ UNCHANGED <<emVars, estVars, sigVars>>

\* GenerateData, line 150
GraftOutput ==
  /\ msPc = "loop"
  /\ ~(scaleLevel < Len(m_SigmaArray))
  /\ graftedOutput' = Deref(GraftSource(outputImageTypePointer), eigenToScalarOutput, maxAbsOutput)
  /\ msPc' = "done"
  /\ UNCHANGED <<m_SigmaArray, m_EigenToScalarImageFilter, response, msError, hessianFilter,
                 eigenAnalysisFilter, eigenToScalarOutput, maxAbsOutput,
                 outputImageTypePointer, scaleLevel, sigmaRuns, orderRuns, maxAbsRuns>>
  /\ UNCHANGED <<emVars, estVars, sigVars>>

MsNext ==
  \/ \E array \in SeqsUpTo(ScheduleSigmas, MaxScales) : SetSigmaArray(array)
  \/ \E order \in ExternalEigenValueOrders : SetEigenToScalarImageFilter(order)
  \/ GenerateDataBegin
  \/ ProcessFirstScale
  \/ ProcessNextScale
  \/ GraftOutput

(***************************************************************************)
(* Eigenvalue images                                                       *)
(***************************************************************************)
\* eigenvalue triples: Frobenius norms 0 and 3
EigenPixels == {<<0, 0, 0>>, <<-1, 2, 2>>}
EigenImages == [Voxels -> EigenPixels]
Threads == 1..NumThreads

(***************************************************************************)
(* EigenToMeasureImageFilter::GenerateData                                 *)
(***************************************************************************)

NoMask == [present |-> FALSE, inside |-> {}]
MaskObjects == {[present |-> TRUE, inside |-> S] : S \in SUBSET Voxels}

\* (!maskPointer) || (maskPointer->IsInsideInObjectSpace(point))
EvaluatesFormulaMutant(maskPointer, v) == TRUE

EvaluatesFormula(maskPointer, v) == ~maskPointer.present \/ v \in maskPointer.inside

EmInit ==
  /\ emInput \in EigenImages
  /\ emMask \in {NoMask} \cup MaskObjects
  /\ emProcessPixel \in [EigenPixels -> Values]
  /\ emOutput = NoData
  /\ emPc = "idle"
  /\ emRegion = [v \in Voxels |-> 1]
  /\ emIt = [t \in Threads |-> 0]
  /\ emCalls = [v \in Voxels |-> 0]
  /\ emWrites = [v \in Voxels |-> 0]
  /\ emWriter = [v \in Voxels |-> 0]

\* lines 32-50: AllocateOutputs, BeforeThreadedGenerateData, split of the region
EmGenerateDataBegin(split) ==
  /\ emPc = "idle"
  /\ emOutput' = NoData
  /\ emRegion' = split
  /\ emIt' = [t \in Threads |-> 0]
  /\ emPc' = "parallel"
  /\ UNCHANGED <<emInput, emMask, emProcessPixel, emCalls, emWrites, emWriter>>
  /\ UNCHANGED <<msVars, estVars, sigVars>>

\* outputIt.Set(value) with the iterator on voxel v
Set(buffer, v, value) ==
  [u \in DOMAIN buffer \cup {v} |-> IF u = v THEN value ELSE buffer[u]]

\* the region the iterators of work unit t walk
RegionOfMutant(t) == Voxels

RegionOf(t) == {v \in Voxels : emRegion[v] = t}

\* the voxel the iterators of work unit t stand on, 0 when IsAtEnd
EmCursor(t) ==
  LET region == RegionOf(t)
  IN  IF emIt[t] >= Cardinality(region) THEN 0
      ELSE CHOOSE v \in region : Cardinality({u \in region : u < v}) = emIt[t]

\* lines 59-73: one iteration of the while loop of one work unit
EmProcessVoxel(t) ==
  /\ emPc = "parallel"
  /\ EmCursor(t) # 0
  /\ LET v == EmCursor(t)
     IN  /\ IF EvaluatesFormula(emMask, v)
            THEN /\ emOutput' = Set(emOutput, v, emProcessPixel[emInput[v]])
                 /\ emCalls' = [emCalls EXCEPT ![v] = @ + 1]
            ELSE /\ emOutput' = Set(emOutput, v, 0)
                 /\ UNCHANGED emCalls
         /\ emWrites' = [emWrites EXCEPT ![v] = @ + 1]
         /\ emWriter' = [emWriter EXCEPT ![v] = t]
  /\ emIt' = [emIt EXCEPT ![t] = @ + 1]
  /\ UNCHANGED <<emInput, emMask, emProcessPixel, emPc, emRegion>>
  /\ UNCHANGED <<msVars, estVars, sigVars>>

\* line 77: every work unit has returned, AfterThreadedGenerateData
EmGenerateDataEnd ==
  /\ emPc = "parallel"
  /\ \A t \in Threads : EmCursor(t) = 0
  /\ emPc' = "done"
  /\ UNCHANGED <<emInput, emMask, emProcessPixel, emOutput, emRegion, emIt, emCalls,
                 emWrites, emWriter>>
  /\ UNCHANGED <<msVars, estVars, sigVars>>

EmNext ==
  \/ \E split \in [Voxels -> Threads] : EmGenerateDataBegin(split)
  \/ \E t \in Threads : EmProcessVoxel(t)
  \/ EmGenerateDataEnd

(***************************************************************************)
(* DescoteauxEigenToScalarParameterEstimationImageFilter                   *)
(* RealType values are counted in quarters: 0.5 is Half = 2.               *)
(***************************************************************************)

Half == 2
\* mask labels (backgroundValue, foregroundValue of the test), weights 0.25 and 0.5
Labels == {1, 2}
Weights == {1, Half}
MaskImages == UNION {[R -> Labels] : R \in (SUBSET Voxels) \ {{}}}

SetMax(S) == CHOOSE x \in S : \A y \in S : y <= x

\* square root, exact on the squares the eigenvalue triples produce
Sqrt(n) == CHOOSE r \in 0..n : r * r = n

CalculateFrobeniusNorm(pixel) ==
  Sqrt(pixel[1] * pixel[1] + pixel[2] * pixel[2] + pixel[3] * pixel[3])

\* the voxels that take part in the estimation
Foreground(mask, background) ==
  IF mask = NoData THEN Voxels ELSE {v \in DOMAIN mask : mask[v] # background}

\* history entry when no Update has run
NoUpdate == [updated |-> FALSE, c |-> Half, maximum |-> 0]

GetAlphaMutant == cOutput

GetAlpha == alphaOutput

GetBetaMutant == cOutput

GetBeta == betaOutput

GetCMutant == alphaOutput

GetC == cOutput

EstInit ==
  /\ estInput = NoData
  /\ estMask = NoData
  /\ m_BackgroundValue \in Labels
  /\ m_FrobeniusNormWeight = Half
  /\ alphaOutput = Half
  /\ betaOutput = Half
  /\ cOutput = Half
  /\ m_MaxFrobeniusNorm = [t \in Threads |-> 0]
  /\ estPc = "idle"
  /\ estRegion = [v \in Voxels |-> 1]
  /\ estScanned = {}
  /\ estFresh = FALSE
  /\ estLast = NoUpdate
  /\ estPrevious = NoUpdate

SetInput(image) ==
  /\ estPc = "idle"
  /\ estInput' = image
  /\ estFresh' = FALSE
  /\ UNCHANGED <<estMask, m_BackgroundValue, m_FrobeniusNormWeight, alphaOutput, betaOutput,
                 cOutput, m_MaxFrobeniusNorm, estPc, estRegion, estScanned, estLast,
                 estPrevious>>
  /\ UNCHANGED <<msVars, emVars, sigVars>>

SetMaskImage(mask) ==
  /\ estPc = "idle"
  /\ estMask' = mask
  /\ estFresh' = FALSE
  /\ UNCHANGED <<estInput, m_BackgroundValue, m_FrobeniusNormWeight, alphaOutput, betaOutput,
                 cOutput, m_MaxFrobeniusNorm, estPc, estRegion, estScanned, estLast,
                 estPrevious>>
  /\ UNCHANGED <<msVars, emVars, sigVars>>

SetBackgroundValue(label) ==
  /\ estPc = "idle"
  /\ m_BackgroundValue' = label
  /\ estFresh' = FALSE
  /\ UNCHANGED <<estInput, estMask, m_FrobeniusNormWeight, alphaOutput, betaOutput,
                 cOutput, m_MaxFrobeniusNorm, estPc, estRegion, estScanned, estLast,
                 estPrevious>>
  /\ UNCHANGED <<msVars, emVars, sigVars>>

SetFrobeniusNormWeight(weight) ==
  /\ estPc = "idle"
  /\ m_FrobeniusNormWeight' = weight
  /\ estFresh' = FALSE
  /\ UNCHANGED <<estInput, estMask, m_BackgroundValue, alphaOutput, betaOutput,
                 cOutput, m_MaxFrobeniusNorm, estPc, estRegion, estScanned, estLast,
                 estPrevious>>
  /\ UNCHANGED <<msVars, emVars, sigVars>>

\* the per-thread maxima as BeforeThreadedGenerateData leaves them
ResetMaximaMutant(maxima) == maxima

ResetMaxima(maxima) == [t \in Threads |-> 0]

\* Update() up to the start of the threads: the region is split and the
\* per-thread maxima are initialised
BeforeThreadedGenerateData(split) ==
  /\ estPc = "idle"
  /\ estInput # NoData
  /\ m_MaxFrobeniusNorm' = ResetMaxima(m_MaxFrobeniusNorm)
  /\ estRegion' = split
  /\ estScanned' = {}
  /\ estPc' = "threads"
  /\ estFresh' = FALSE
  /\ estPrevious' = NoUpdate
  /\ UNCHANGED <<estInput, estMask, m_BackgroundValue, m_FrobeniusNormWeight,
                 alphaOutput, betaOutput, cOutput, estLast>>
  /\ UNCHANGED <<msVars, emVars, sigVars>>

\* the slot of m_MaxFrobeniusNorm the worker with this threadId writes
ThreadSlotMutant(threadId) == 1

ThreadSlot(threadId) == threadId

\* the running maximum of thread t after its part of the foreground
ThreadMaximum(t) ==
  SetMax({m_MaxFrobeniusNorm[ThreadSlot(t)]} \cup {CalculateFrobeniusNorm(estInput[v]) :
                     v \in {u \in Foreground(estMask, m_BackgroundValue) : estRegion[u] = t}})

ThreadedGenerateData(t) ==
  /\ estPc = "threads"
  /\ t \notin estScanned
  /\ m_MaxFrobeniusNorm' = [m_MaxFrobeniusNorm EXCEPT ![ThreadSlot(t)] = ThreadMaximum(t)]
  /\ estScanned' = estScanned \cup {t}
  /\ UNCHANGED <<estInput, estMask, m_BackgroundValue, m_FrobeniusNormWeight,
                 alphaOutput, betaOutput, cOutput, estPc, estRegion, estFresh, estLast,
                 estPrevious>>
  /\ UNCHANGED <<msVars, emVars, sigVars>>

\* merge of the per-thread maxima, after every thread has returned
AfterThreadedGenerateData ==
  /\ estPc = "threads"
  /\ estScanned = Threads
  /\ alphaOutput' = Half
  /\ betaOutput' = Half
  /\ cOutput' = m_FrobeniusNormWeight * SetMax({m_MaxFrobeniusNorm[t] : t \in Threads})
  /\ estPc' = "idle"
  /\ estFresh' = TRUE
  /\ estLast' = [updated |-> TRUE, c |-> cOutput',
                  maximum |-> SetMax({m_MaxFrobeniusNorm[t] : t \in Threads})]
  /\ estPrevious' = estLast
  /\ estRegion' = [v \in Voxels |-> 1]
  /\ estScanned' = {}
  /\ UNCHANGED <<estInput, estMask, m_BackgroundValue, m_FrobeniusNormWeight,
                 m_MaxFrobeniusNorm>>
  /\ UNCHANGED <<msVars, emVars, sigVars>>

EstNext ==
  \/ \E image \in EigenImages : SetInput(image)
  \/ \E mask \in MaskImages : SetMaskImage(mask)
  \/ \E label \in Labels : SetBackgroundValue(label)
  \/ \E weight \in Weights : SetFrobeniusNormWeight(weight)
  \/ \E split \in [Voxels -> Threads] : BeforeThreadedGenerateData(split)
  \/ \E t \in Threads : ThreadedGenerateData(t)
  \/ AfterThreadedGenerateData

(***************************************************************************)
(* Calls of GenerateSigmaArray                                             *)
(***************************************************************************)

Pending == [err |-> "pending", arr |-> <<>>]

SigInit ==
  /\ \E method \in AllStepMethods, steps \in 0..MaxSigmaSteps :
       \E lo \in SigmaInputs(method), hi \in SigmaInputs(method) :
         sigArgs = [min |-> lo, max |-> hi, steps |-> steps, method |-> method]
  /\ sigResult = Pending
  /\ sigSwapped = Pending

CallGenerateSigmaArray ==
  /\ sigResult = Pending
  /\ sigResult' = GenerateSigmaArray(sigArgs.min, sigArgs.max, sigArgs.steps, sigArgs.method)
  /\ UNCHANGED <<sigArgs, sigSwapped>>
  /\ UNCHANGED <<msVars, emVars, estVars>>

CallGenerateSigmaArraySwapped ==
  /\ sigSwapped = Pending
  /\ sigSwapped' = GenerateSigmaArray(sigArgs.max, sigArgs.min, sigArgs.steps, sigArgs.method)
  /\ UNCHANGED <<sigArgs, sigResult>>
  /\ UNCHANGED <<msVars, emVars, estVars>>

SigNext == CallGenerateSigmaArray \/ CallGenerateSigmaArraySwapped

(***************************************************************************)
(* Specifications: one per component, the other components at rest         *)
(***************************************************************************)
MsRest ==
  /\ m_SigmaArray = <<>>
  /\ m_EigenToScalarImageFilter = "nullptr"
  /\ response = [s \in ScheduleSigmas |-> [v \in ResponseVoxels |-> 0]]
  /\ msPc = "idle"
  /\ msError = "none"
  /\ hessianFilter = [normalize |-> FALSE, sigma |-> 0, input |-> "none"]
  /\ eigenAnalysisFilter = [order |-> "unset", input |-> "none"]
  /\ eigenToScalarOutput = NoData
  /\ maxAbsOutput = NoData
  /\ outputImageTypePointer = "null"
  /\ scaleLevel = 0
  /\ graftedOutput = NoData
  /\ sigmaRuns = <<>>
  /\ orderRuns = <<>>
  /\ maxAbsRuns = 0

EmRest ==
  /\ emInput = [v \in Voxels |-> <<0, 0, 0>>]
  /\ emMask = NoMask
  /\ emProcessPixel = [p \in EigenPixels |-> 0]
  /\ emOutput = NoData
  /\ emPc = "idle"
  /\ emRegion = [v \in Voxels |-> 1]
  /\ emIt = [t \in Threads |-> 0]
  /\ emCalls = [v \in Voxels |-> 0]
  /\ emWrites = [v \in Voxels |-> 0]
  /\ emWriter = [v \in Voxels |-> 0]

EstRest ==
  /\ estInput = NoData
  /\ estMask = NoData
  /\ m_BackgroundValue = 1
  /\ m_FrobeniusNormWeight = Half
  /\ alphaOutput = Half
  /\ betaOutput = Half
  /\ cOutput = Half
  /\ m_MaxFrobeniusNorm = [t \in Threads |-> 0]
  /\ estPc = "idle"
  /\ estRegion = [v \in Voxels |-> 1]
  /\ estScanned = {}
  /\ estFresh = FALSE
  /\ estLast = NoUpdate
  /\ estPrevious = NoUpdate

SigRest ==
  /\ sigArgs = [min |-> Lin(Fin(1, 1)), max |-> Lin(Fin(1, 1)), steps |-> 1,
                method |-> "EquispacedSigmaSteps"]
  /\ sigResult = Pending
  /\ sigSwapped = Pending

InitMultiScale == MsInit /\ EmRest /\ EstRest /\ SigRest

SpecMultiScale == InitMultiScale /\ [][MsNext]_vars

InitMeasure == EmInit /\ MsRest /\ EstRest /\ SigRest

SpecMeasure == InitMeasure /\ [][EmNext]_vars

InitEstimator == EstInit /\ MsRest /\ EmRest /\ SigRest

SpecEstimator == InitEstimator /\ [][EstNext]_vars

InitSigma == SigInit /\ MsRest /\ EmRest /\ EstRest

SpecSigma == InitSigma /\ [][SigNext]_vars

(***************************************************************************)
(* Properties                                                              *)
(***************************************************************************)
\* the left fold of running = (|running| >= |candidate|) ? running : candidate
\* over the responses at schedule[1..i], at voxel v
RECURSIVE FoldOverScales(_, _, _)
FoldOverScales(schedule, i, v) ==
  IF i = 1 THEN response[schedule[1]][v]
  ELSE LET running == FoldOverScales(schedule, i - 1, v)
           candidate == response[schedule[i]][v]
       IN  IF Abs(running) >= Abs(candidate) THEN running ELSE candidate

\* C1: after GenerateData finishes, every output voxel is the left fold over the
\* scale indices of the keep-the-larger-magnitude rule (ties keep the running
\* value), started from the response at the first scale.
C1_OutputIsFoldOverScales ==
  msPc = "done" =>
    /\ DOMAIN graftedOutput = ResponseVoxels
    /\ \A v \in ResponseVoxels :
         graftedOutput[v] = FoldOverScales(m_SigmaArray, Len(m_SigmaArray), v)

\* C2: with a schedule of exactly one sigma the output is the response image of
\* the single-scale pipeline at that sigma, and the maximum-absolute-value stage
\* is never executed.
C2_SingleScaleIsPipeline ==
  Len(m_SigmaArray) = 1 =>
    /\ maxAbsRuns = 0
    /\ maxAbsOutput = NoData
    /\ msPc = "done" => graftedOutput = response[m_SigmaArray[1]]

C2_Witness ==
  /\ msPc = "done"
  /\ Len(m_SigmaArray) = 1
  /\ sigmaRuns = m_SigmaArray
  /\ \E v \in ResponseVoxels : graftedOutput[v] # 0

\* C3: without a functor, or with an empty schedule, GenerateData fails before
\* any internal filter is configured or run, and nothing is grafted.
C3_PreconditionFailureIsClean ==
  (msPc # "idle" /\ (m_EigenToScalarImageFilter = "nullptr" \/ Len(m_SigmaArray) < 1)) =>
    /\ msPc = "failed"
    /\ msError \in {"EigenToScalarImageFilter is not present",
                    "SigmaArray must have at least one sigma value"}
    /\ hessianFilter = [normalize |-> FALSE, sigma |-> 0, input |-> "none"]
    /\ eigenAnalysisFilter = [order |-> "unset", input |-> "none"]
    /\ sigmaRuns = <<>>
    /\ orderRuns = <<>>
    /\ maxAbsRuns = 0
    /\ eigenToScalarOutput = NoData
    /\ maxAbsOutput = NoData
    /\ outputImageTypePointer = "null"
    /\ graftedOutput = NoData

C3_Witness ==
  /\ msPc = "failed"
  /\ m_EigenToScalarImageFilter # "nullptr"
  /\ Len(m_SigmaArray) = 0
  /\ msError = "SigmaArray must have at least one sigma value"

\* C4: for every accepted (min, max, count >= 1, equispaced or logarithmic) the
\* returned schedule starts with the smaller bound and is non-decreasing.
C4_ScheduleStartsAtMinAndIsNonDecreasing ==
  (sigResult # Pending /\ sigArgs.steps >= 1 /\ sigArgs.method \in SigmaStepMethods) =>
    /\ sigResult.err = "none"
    /\ sigResult.arr[1] =
         (IF SigmaLess(sigArgs.max, sigArgs.min) THEN sigArgs.max ELSE sigArgs.min)
    /\ \A i \in 1..(Len(sigResult.arr) - 1) :
         SigmaLeq(sigResult.arr[i], sigResult.arr[i + 1])

\* C5: GenerateSigmaArray(a, b, count, method) and GenerateSigmaArray(b, a, count,
\* method) return the same schedule, or fail alike.
C5_SwappedBoundsSameSchedule ==
  (sigResult # Pending /\ sigSwapped # Pending) => sigResult = sigSwapped

C5_Witness ==
  /\ sigResult # Pending
  /\ sigSwapped # Pending
  /\ sigResult.err = "none"
  /\ SigmaLess(sigArgs.max, sigArgs.min)
  /\ Len(sigResult.arr) >= 2
  /\ sigResult.arr[1] = sigArgs.max

\* C6 as stated: with min == max the call returns the one-element schedule
\* <<min>>, whatever the requested count and the step method.
C6_EqualBoundsOneElementAnyCount ==
  (sigResult # Pending /\ sigArgs.min = sigArgs.max) =>
    /\ sigResult.err = "none"
    /\ sigResult.arr = <<sigArgs.min>>

\* C6 amended: with min == max and a requested count of at least 1 the call
\* returns the one-element schedule <<min>>, whatever the step method; a
\* requested count below 1 is rejected.
C6_EqualBoundsOneElement ==
  (sigResult # Pending /\ sigArgs.min = sigArgs.max) =>
    IF sigArgs.steps >= 1
    THEN sigResult.err = "none" /\ sigResult.arr = <<sigArgs.min>>
    ELSE sigResult.err = "Number of sigma values requested is less than 1"

C6_Witness ==
  /\ sigResult # Pending
  /\ sigArgs.min = sigArgs.max
  /\ sigArgs.steps >= 2
  /\ sigResult.arr = <<sigArgs.min>>

\* the largest Frobenius norm of image over the voxels of region, 0 if there is none
MaxNormOver(image, region) ==
  SetMax({0} \cup {CalculateFrobeniusNorm(image[v]) : v \in region})

\* C7: after an Update, c is FrobeniusNormWeight times the largest Frobenius norm
\* over the foreground: every voxel without a mask, else the voxels whose mask
\* value differs from BackgroundValue.
C7_CIsWeightedMaxForegroundNorm ==
  estFresh =>
    GetC = m_FrobeniusNormWeight *
             MaxNormOver(estInput, IF estMask = NoData THEN Voxels
                                   ELSE {v \in DOMAIN estMask : estMask[v] # m_BackgroundValue})

\* an Update with a mask of two labels over the whole image, where the region
\* selected by the present BackgroundValue and the complementary region give
\* different values of c
C7_Witness ==
  /\ estFresh
  /\ estMask # NoData
  /\ DOMAIN estMask = Voxels
  /\ \E other \in Labels \ {m_BackgroundValue} :
       /\ {estMask[v] : v \in Voxels} = {m_BackgroundValue, other}
       /\ GetC # m_FrobeniusNormWeight * MaxNormOver(estInput, Foreground(estMask, other))

\* C8: GetAlpha and GetBeta return 0.5 in every reachable state.
C8_AlphaBetaStayHalf == GetAlpha = Half /\ GetBeta = Half

C8_Witness ==
  /\ estFresh
  /\ estMask # NoData
  /\ m_FrobeniusNormWeight # Half
  /\ GetC # Half
  /\ GetAlpha = Half

\* C9: with an empty foreground, or only (0,0,0) triples in the foreground,
\* Update completes and c is 0.
C9_DegenerateForegroundGivesZero ==
  (estFresh /\ \A v \in Foreground(estMask, m_BackgroundValue) : estInput[v] = <<0, 0, 0>>) =>
    estPc = "idle" /\ GetC = 0

C9_Witness ==
  /\ estFresh
  /\ estMask # NoData
  /\ Foreground(estMask, m_BackgroundValue) = {}
  /\ \E v \in Voxels : estInput[v] # <<0, 0, 0>>
  /\ m_FrobeniusNormWeight > 0
  /\ GetC = 0

\* C10: every voxel written by GenerateData holds exactly 0, without a call of
\* ProcessPixel, when a mask is set and the voxel is outside it, and holds
\* ProcessPixel of its eigenvalue triple otherwise; at the end every voxel of
\* the requested region is written.
C10_MaskedVoxelsZeroOthersProcessed ==
  /\ \A v \in DOMAIN emOutput :
       IF emMask.present /\ v \notin emMask.inside
       THEN emOutput[v] = 0 /\ emCalls[v] = 0
       ELSE emOutput[v] = emProcessPixel[emInput[v]] /\ emCalls[v] = 1
  /\ emPc = "done" => DOMAIN emOutput = Voxels

C10_Witness ==
  /\ emPc = "done"
  /\ emMask.present
  /\ \E v \in Voxels : v \notin emMask.inside /\ emProcessPixel[emInput[v]] # 0 /\ emOutput[v] = 0
  /\ \E v \in Voxels : v \in emMask.inside /\ emOutput[v] # 0

\* C11: a call of GenerateSigmaArray that receives a non-positive bound
\* (sigma <= 0) is rejected with an error, and no returned schedule contains a
\* non-positive scale value.
C11_NonPositiveSigmaRejected ==
  sigResult # Pending =>
    /\ (~IsPositive(sigArgs.min) \/ ~IsPositive(sigArgs.max)) => sigResult.err # "none"
    /\ \A i \in 1..Len(sigResult.arr) : IsPositive(sigResult.arr[i])

\* while the workers scan, a slot holds the maximum of its own worker's part of
\* the foreground once that worker has returned, and its initial value before
SlotsHoldOwnMaximum ==
  estPc = "threads" =>
    \A t \in Threads :
      m_MaxFrobeniusNorm[t] =
        IF t \in estScanned
        THEN MaxNormOver(estInput, {v \in Foreground(estMask, m_BackgroundValue) :
                                      estRegion[v] = t})
        ELSE 0

\* c is written only by the merge, which runs when every worker has returned
MergeAfterAllScans ==
  cOutput' # cOutput => (estPc = "threads" /\ estScanned = Threads /\ estPc' = "idle")

\* what a consumer reads after Update: the single-threaded result
MergedIsSequential ==
  estFresh =>
    /\ estPc = "idle"
    /\ cOutput = m_FrobeniusNormWeight *
                   MaxNormOver(estInput, Foreground(estMask, m_BackgroundValue))

\* C12: in the parallel scan each worker writes only its own slot of the
\* per-thread maxima; c is merged after every worker has returned and before
\* Update returns to a consumer; the merged c is the single-threaded result for
\* every split of the region and every order of the workers.
C12_SlotsPrivateMergeAfterScans ==
  /\ [](SlotsHoldOwnMaximum /\ MergedIsSequential)
  /\ [][MergeAfterAllScans]_vars

\* an Update whose workers found different maxima, merged into c
C12_Witness ==
  /\ estFresh
  /\ \E t1 \in Threads, t2 \in Threads : m_MaxFrobeniusNorm[t1] < m_MaxFrobeniusNorm[t2]
  /\ cOutput = m_FrobeniusNormWeight * SetMax({m_MaxFrobeniusNorm[t] : t \in Threads})
  /\ cOutput > 0

\* the output of the run with one work unit that walks the whole region
SequentialOutput ==
  [v \in Voxels |-> IF EvaluatesFormula(emMask, v) THEN emProcessPixel[emInput[v]] ELSE 0]

\* C13: for every split of the requested region and every interleaving of the
\* work units GenerateData gives the output of the sequential run: no voxel is
\* written before the region is split (after BeforeThreadedGenerateData), each
\* voxel is written exactly once, by the work unit that owns it, and
\* GenerateData ends (AfterThreadedGenerateData) only when every voxel is written.
C13_SplitAndInterleavingIndependent ==
  /\ emPc = "idle" => \A v \in Voxels : emWrites[v] = 0
  /\ \A v \in Voxels :
       /\ emWrites[v] <= 1
       /\ emWrites[v] = 1 =>
            /\ emWriter[v] = emRegion[v]
            /\ emOutput[v] = SequentialOutput[v]
  /\ emPc = "done" =>
       /\ \A v \in Voxels : emWrites[v] = 1
       /\ emOutput = SequentialOutput

\* a finished run where two work units each wrote a part of the image
C13_Witness ==
  /\ emPc = "done"
  /\ \E v1 \in Voxels, v2 \in Voxels : emWriter[v1] # emWriter[v2]
  /\ emOutput = SequentialOutput
  /\ \E v \in Voxels : emOutput[v] # 0

\* C14: at every scale of a run the order of the eigen decomposer is the order
\* the functor declares (by value, by magnitude, do not order); with a declared
\* order outside these three the run fails and nothing is decomposed.
C14_OrderPropagatedAtEveryScale ==
  /\ Len(orderRuns) = Len(sigmaRuns)
  /\ \A i \in 1..Len(orderRuns) :
       <<m_EigenToScalarImageFilter, orderRuns[i]>> \in
         {<<"OrderByValue", "OrderByValue">>,
          <<"OrderByMagnitude", "OrderByMagnitude">>,
          <<"DoNotOrder", "DoNotOrder">>}
  /\ (msPc # "idle" /\ m_EigenToScalarImageFilter = "BadOrder") =>
       /\ msPc = "failed"
       /\ msError \in {"Trying to convert bad order",
                       "SigmaArray must have at least one sigma value"}
       /\ eigenAnalysisFilter.order = "unset"
       /\ orderRuns = <<>>
       /\ graftedOutput = NoData

\* a finished run over several scales with a functor that orders by magnitude
C14_Witness ==
  /\ msPc = "done"
  /\ m_EigenToScalarImageFilter = "OrderByMagnitude"
  /\ Len(orderRuns) >= 2
  /\ \A i \in 1..Len(orderRuns) : orderRuns[i] = "OrderByMagnitude"

\* every Update starts from re-initialised per-thread maxima
MaximaReinitialised ==
  (estPc = "idle" /\ estPc' = "threads") => \A t \in Threads : m_MaxFrobeniusNorm'[t] = 0

\* the c an Update leaves is a function of the settings in force at that Update
UpdateUsesPresentSettings ==
  (estPc = "threads" /\ estPc' = "idle") =>
    cOutput' = m_FrobeniusNormWeight' *
                 MaxNormOver(estInput', Foreground(estMask', m_BackgroundValue'))

\* the last Update against the one before it: a smaller foreground maximum gives
\* the smaller c at equal weight, an equal maximum gives c in the ratio of the weights
LastAgainstPrevious ==
  (estFresh /\ estPrevious.updated) =>
    /\ estLast.c = GetC
    /\ estLast.maximum = MaxNormOver(estInput, Foreground(estMask, m_BackgroundValue))
    /\ GetC = m_FrobeniusNormWeight * estLast.maximum
    /\ \A weight \in Weights :
         estPrevious.c = weight * estPrevious.maximum =>
           /\ (estLast.maximum < estPrevious.maximum /\ weight = m_FrobeniusNormWeight)
                => GetC < estPrevious.c
           /\ estLast.maximum = estPrevious.maximum
                => GetC * weight = estPrevious.c * m_FrobeniusNormWeight

\* C15: c after an Update depends only on the input, mask, BackgroundValue and
\* FrobeniusNormWeight in force at that Update, never on earlier Updates: the
\* per-thread maxima are re-initialised on every run, a run with a smaller
\* foreground maximum than the run before yields the smaller c, and an Update
\* after a change of the weight alone rescales c.
C15_CDependsOnPresentUpdateOnly ==
  /\ []LastAgainstPrevious
  /\ [][MaximaReinitialised /\ UpdateUsesPresentSettings]_vars

\* an Update with a smaller foreground maximum than the Update before it
C15_Witness ==
  /\ estFresh
  /\ estPrevious.updated
  /\ estLast.maximum < estPrevious.maximum
  /\ GetC < estPrevious.c
  /\ GetC = m_FrobeniusNormWeight * estLast.maximum

\* C16: for positive min < max and a count of at least 2 the equispaced schedule
\* lies within [min, max] and its last element is max, also when
\* (max - min) / (count - 1) is below the minimum step of 1e-10.
C16_EquispacedWithinBoundsEndsAtMax ==
  (/\ sigResult # Pending
   /\ sigArgs.method = "EquispacedSigmaSteps"
   /\ sigArgs.steps >= 2
   /\ IsPositive(sigArgs.min)
   /\ SigmaLess(sigArgs.min, sigArgs.max)) =>
    /\ sigResult.err = "none"
    /\ Len(sigResult.arr) = sigArgs.steps
    /\ \A i \in 1..Len(sigResult.arr) :
         SigmaLeq(sigArgs.min, sigResult.arr[i]) /\ SigmaLeq(sigResult.arr[i], sigArgs.max)
    /\ sigResult.arr[Len(sigResult.arr)] = sigArgs.max

====
